---- MODULE Spec2Model ----
(***************************************************************************)
(* A model of the rust-doom ray-marching renderer.                         *)
(*                                                                         *)
(*   src/src/renderer.rs  Renderer (MAP_DATA, new, render, queue)          *)
(*   src/src/main.rs      State (event_loop, handle_event, resize, update, *)
(*                        render)                                          *)
(*   src/src/graphics.rs  Graphics (resize, queue, render)                 *)
(*                                                                         *)
(* Numbers.  An f32 is a fixed-point integer counting units of 1/Scale.    *)
(* The sentinel 1e30 is kept apart: a distance is a record [big, fix]      *)
(* standing for big * 1e30 + fix / Scale, and an addition whose result has *)
(* a 1e30 part drops the small part, as f32 rounding does (the ulp of 1e30 *)
(* is about 7.6e22).  A u32 is a record [hi, lo] of two 16-bit halves, so  *)
(* that 0xFF0000FF, u32::MAX and a wrapped subtraction are all exact.      *)
(*                                                                         *)
(* The pixel buffer.  pixels: Vec<u8> is a record [len, log]: len is the   *)
(* vector's length and log the fills that produced its contents, oldest    *)
(* first.  A fill [base, stride, count, val] stores val at the byte        *)
(* indices base + k * stride, k < count; ByteAt reads the last fill that   *)
(* covers an index and 0 (vec![0; size]) where none does.                  *)
(***************************************************************************)
EXTENDS Integers, Sequences, FiniteSets, TLC

VARIABLES
    \* State (main.rs): the camera
    player_pos, facing_dir, view_plane, facing_neg0,
    \* State (main.rs): the window and the surface
    size, config, surface, screen, queued, last_resize,
    \* Renderer (renderer.rs)
    pixels,
    \* Graphics (graphics.rs)
    g_config, g_surface, g_pixels_len, g_queued,
    \* control: the position in handle_event / render, the columns left
    pc, todo, panic,
    \* the locals of one iteration of render's column loop
    x, ray, ray_neg0, ipos, delta_dist, side_dist, step, hit, color, dperp, h, y0, y1,
    \* history: loop iterations of the current column, events handled so far
    nsteps, frames, facing_rots, plane_rots, renders, uploads

camVars == <<player_pos, facing_dir, view_plane, facing_neg0>>
winVars == <<size, config, surface, screen, queued, last_resize>>
gfxVars == <<g_config, g_surface, g_pixels_len, g_queued>>
colVars == <<x, ray, ray_neg0, ipos, delta_dist, side_dist, step, hit, color, dperp, h, y0, y1, nsteps>>
histVars == <<frames, facing_rots, plane_rots, renders, uploads>>
vars == <<camVars, winVars, gfxVars, colVars, histVars, pixels, pc, todo, panic>>

----------------------------------------------------------------------------
(* Bounds of the model *)

\* camera positions tried per cell: the first NumOffsets of PosOffsets
NumOffsets == 2
\* the cap on DDA iterations of one column (the code's loop has none)
MaxSteps == 40
\* RedrawRequested events handled in one run
MaxFrames == 2
\* columns of the screen the model renders, spread evenly over 0..799
NumColumns == 3

----------------------------------------------------------------------------
(* f32 as fixed point *)

Scale == 10000

Abs(a) == IF a < 0 THEN -a ELSE a

Min(a, b) == IF a < b THEN a ELSE b

Max(a, b) == IF a > b THEN a ELSE b

\* n / d rounded to the nearest unit, d > 0
RoundDiv(n, d) == IF n >= 0 THEN (2 * n + d) \div (2 * d) ELSE -((2 * (-n) + d) \div (2 * d))

\* a * b and a / b of two fixed-point numbers
FMul(a, b) == RoundDiv(a * b, Scale)

Fix(v) == [big |-> 0, fix |-> v]

SENTINEL == [big |-> 1, fix |-> 0]

FAdd(a, b) ==
    IF a.big + b.big # 0 THEN [big |-> a.big + b.big, fix |-> 0]
    ELSE [big |-> 0, fix |-> a.fix + b.fix]

FSub(a, b) == FAdd(a, [big |-> -b.big, fix |-> -b.fix])

FLess(a, b) == a.big < b.big \/ (a.big = b.big /\ a.fix < b.fix)

FPositive(a) == FLess(Fix(0), a)

\* ray.abs() < 1e-20: 1e-20 is below the resolution 1/Scale, so only 0 is below it
NearZero(r) == Abs(r) < 1

\* f32::signum as i32: 1 for +0.0 and above, -1 for -0.0 and below
SignumNeverNegative(r, neg0) == IF r > 0 THEN 1 ELSE IF r < 0 THEN 0 ELSE IF neg0 THEN -1 ELSE 1

Signum(r, neg0) == IF r > 0 THEN 1 ELSE IF r < 0 THEN -1 ELSE IF neg0 THEN -1 ELSE 1

\* the reciprocal with its sign kept: recip() without abs()
RecipSigned(r) == IF r < 0 THEN Fix(-RoundDiv(Scale * Scale, -r)) ELSE Fix(RoundDiv(Scale * Scale, r))

\* f32::recip().abs()
RecipAbs(r) == Fix(RoundDiv(Scale * Scale, Abs(r)))

----------------------------------------------------------------------------
(* u32 as two 16-bit halves *)

U16 == 65536

U32Of(n) == [hi |-> n \div U16, lo |-> n % U16]

\* the literal 0xb3b2b1b0
Hex(b3, b2, b1, b0) == [hi |-> b3 * 256 + b2, lo |-> b1 * 256 + b0]

U32_MAX == [hi |-> U16 - 1, lo |-> U16 - 1]

ULess(a, b) == a.hi < b.hi \/ (a.hi = b.hi /\ a.lo < b.lo)

UMax(a, b) == IF ULess(a, b) THEN b ELSE a

UMin(a, b) == IF ULess(a, b) THEN a ELSE b

\* a + b mod 2^32, and whether it overflowed
UAdd(a, b) ==
    LET l == a.lo + b.lo
        t == a.hi + b.hi + l \div U16
    IN [val |-> [hi |-> t % U16, lo |-> l % U16], overflow |-> t >= U16]

\* a - b mod 2^32, and whether it overflowed
USub(a, b) ==
    LET l == a.lo - b.lo
        t == a.hi - b.hi - (IF l < 0 THEN 1 ELSE 0)
    IN [val |-> [hi |-> t % U16, lo |-> l % U16], overflow |-> t < 0]

\* a * k mod 2^32 for a small k, and whether it overflowed
UMul(a, k) ==
    LET l == a.lo * k
        t == a.hi * k + l \div U16
    IN [val |-> [hi |-> t % U16, lo |-> l % U16], overflow |-> t >= U16]

\* a >> 8
UShr8(a) == [hi |-> a.hi \div 256, lo |-> (a.hi % 256) * 256 + a.lo \div 256]

\* a / 2
UHalf(a) == [hi |-> a.hi \div 2, lo |-> (a.hi % 2) * (U16 \div 2) + a.lo \div 2]

\* bit i of a 16-bit half
Bit(a, i) == (a \div (2 ^ i)) % 2

\* a & b and a | b of two 16-bit halves, bit by bit
And16(a, b) ==
    LET T(i) == (2 ^ i) * Bit(a, i) * Bit(b, i)
    IN T(0) + T(1) + T(2) + T(3) + T(4) + T(5) + T(6) + T(7)
       + T(8) + T(9) + T(10) + T(11) + T(12) + T(13) + T(14) + T(15)

Or16(a, b) == a + b - And16(a, b)

UAnd(a, b) == [hi |-> And16(a.hi, b.hi), lo |-> And16(a.lo, b.lo)]

UOr(a, b) == [hi |-> Or16(a.hi, b.hi), lo |-> Or16(a.lo, b.lo)]

\* a usize as a model integer; a value of 2^31 or more is cut to the largest
\* integer, which every use below only compares with a row count
ToInt(a) == IF a.hi >= U16 \div 2 THEN 2147483647 ELSE a.hi * U16 + a.lo

\* ((color & mask) >> shift) as u8 for the four bytes of a pixel, offset 0 first
Bytes(c) == <<c.lo % 256, c.lo \div 256, c.hi % 256, c.hi \div 256>>

----------------------------------------------------------------------------
(* The map *)

MAP_WIDTH == 15

\* the same grid with the border cell of row 5, column 0 left open
MapWithOpenBorder ==
    << 1, 1, 1, 1, 1, 1, 1, 1, 1, 1, 1, 1, 1, 1, 1,
       1, 0, 0, 0, 0, 0, 0, 0, 0, 0, 0, 0, 0, 0, 1,
       1, 0, 0, 0, 0, 0, 0, 0, 0, 0, 0, 0, 0, 0, 1,
       1, 0, 0, 0, 0, 0, 0, 0, 0, 0, 0, 0, 0, 0, 1,
       1, 0, 0, 0, 0, 0, 0, 0, 0, 0, 0, 0, 0, 0, 1,
       0, 0, 0, 0, 0, 0, 0, 0, 0, 0, 0, 0, 0, 0, 1,
       1, 0, 0, 0, 0, 0, 0, 0, 0, 0, 0, 0, 0, 0, 1,
       1, 0, 0, 0, 0, 0, 0, 0, 0, 0, 0, 0, 0, 0, 1,
       1, 0, 0, 0, 2, 0, 0, 0, 0, 0, 0, 0, 0, 0, 1,
       1, 0, 0, 0, 2, 0, 0, 3, 3, 3, 0, 0, 0, 0, 1,
       1, 0, 0, 0, 0, 0, 0, 0, 0, 0, 0, 0, 0, 0, 1,
       1, 0, 0, 0, 0, 0, 0, 0, 0, 0, 0, 0, 0, 0, 1,
       1, 0, 0, 0, 0, 0, 0, 0, 0, 0, 0, 0, 0, 0, 1,
       1, 0, 0, 0, 0, 0, 0, 0, 0, 0, 0, 0, 0, 0, 1,
       1, 1, 1, 1, 1, 1, 1, 1, 1, 1, 1, 1, 1, 1, 1 >>

MAP_DATA ==
    << 1, 1, 1, 1, 1, 1, 1, 1, 1, 1, 1, 1, 1, 1, 1,
       1, 0, 0, 0, 0, 0, 0, 0, 0, 0, 0, 0, 0, 0, 1,
       1, 0, 0, 0, 0, 0, 0, 0, 0, 0, 0, 0, 0, 0, 1,
       1, 0, 0, 0, 0, 0, 0, 0, 0, 0, 0, 0, 0, 0, 1,
       1, 0, 0, 0, 0, 0, 0, 0, 0, 0, 0, 0, 0, 0, 1,
       1, 0, 0, 0, 0, 0, 0, 0, 0, 0, 0, 0, 0, 0, 1,
       1, 0, 0, 0, 0, 0, 0, 0, 0, 0, 0, 0, 0, 0, 1,
       1, 0, 0, 0, 0, 0, 0, 0, 0, 0, 0, 0, 0, 0, 1,
       1, 0, 0, 0, 2, 0, 0, 0, 0, 0, 0, 0, 0, 0, 1,
       1, 0, 0, 0, 2, 0, 0, 3, 3, 3, 0, 0, 0, 0, 1,
       1, 0, 0, 0, 0, 0, 0, 0, 0, 0, 0, 0, 0, 0, 1,
       1, 0, 0, 0, 0, 0, 0, 0, 0, 0, 0, 0, 0, 0, 1,
       1, 0, 0, 0, 0, 0, 0, 0, 0, 0, 0, 0, 0, 0, 1,
       1, 0, 0, 0, 0, 0, 0, 0, 0, 0, 0, 0, 0, 0, 1,
       1, 1, 1, 1, 1, 1, 1, 1, 1, 1, 1, 1, 1, 1, 1 >>

\* MAP_DATA[ipos.1 * 15 + ipos.0].  A negative cell index stands for the usize
\* it wraps to: with overflow checks the index arithmetic panics, without them
\* it wraps and the slice index is checked.
MapLookup(ip, checks) ==
    LET idx == ip[2] * MAP_WIDTH + ip[1]
    IN IF (checks /\ (ip[1] < 0 \/ ip[2] < 0)) \/ idx < 0 \/ idx >= Len(MAP_DATA)
       THEN [ok |-> FALSE, mat |-> 0]
       ELSE [ok |-> TRUE, mat |-> MAP_DATA[idx + 1]]

IsBorder(cx, cy) == cx = 0 \/ cy = 0 \/ cx = MAP_WIDTH - 1 \/ cy = MAP_WIDTH - 1

\* a cell strictly inside the map: not on the border, and empty
Interior(cx, cy) == ~IsBorder(cx, cy) /\ MAP_DATA[cy * MAP_WIDTH + cx + 1] = 0

----------------------------------------------------------------------------
(* The pixel buffer *)

WIDTH == 800

HEIGHT == 600

HALF_HEIGHT == 300

\* the index a column writes at row y for the byte at offset c of the pixel
IdxColumnMajor(cx, y, c) == (cx * WIDTH + y) * 4 + c

Idx(cx, y, c) == (y * WIDTH + cx) * 4 + c

\* Renderer::new: vec![0; width * height * 4]
NewPixels(w, h_) == [len |-> w * h_ * 4, log |-> <<>>]

Covers(e, idx) ==
    /\ idx >= e.base
    /\ (idx - e.base) % e.stride = 0
    /\ (idx - e.base) \div e.stride < e.count

RECURSIVE ReadLog(_, _, _)
ReadLog(log, i, idx) ==
    IF i = 0 THEN 0
    ELSE IF Covers(log[i], idx) THEN log[i].val
    ELSE ReadLog(log, i - 1, idx)

\* pixels[idx]
ByteAt(p, idx) == ReadLog(p.log, Len(p.log), idx)

\* what is left of the fill o once the fill e has overwritten its bytes
Pieces(o, e) ==
    IF o.stride # e.stride \/ (o.base - e.base) % e.stride # 0 THEN <<o>>
    ELSE LET ko == (o.base - e.base) \div e.stride
             end == ko + o.count
             left == IF ko < 0 THEN <<[o EXCEPT !.count = Min(end, 0) - ko]>> ELSE <<>>
             from == Max(ko, e.count)
             right == IF end > from
                      THEN <<[o EXCEPT !.base = e.base + from * e.stride, !.count = end - from]>>
                      ELSE <<>>
         IN left \o right

RECURSIVE Trim(_, _)
Trim(log, e) == IF log = <<>> THEN <<>> ELSE Pieces(Head(log), e) \o Trim(Tail(log), e)

Put(log, e) == IF e.count <= 0 THEN log ELSE Trim(log, e) \o <<e>>

\* for y in lo..hi { pixels[Idx(x, y, 3)] = bytes[3]; ... pixels[Idx(x, y, 0)] = bytes[0] }
\* Each store is bounds-checked: the loop panics at the first row whose byte 3
\* (the highest index of the pixel, stored first) lies outside the vector, with
\* the rows before it stored.
Fill(p, cx, lo, hi, bytes) ==
    LET count == Max(hi - lo, 0)
        first == Idx(cx, lo, 3)
        stride == Idx(cx, lo + 1, 3) - first
        stored == IF count = 0 THEN 0
                  ELSE IF first >= p.len THEN 0
                  ELSE Min(count, (p.len - 1 - first) \div stride + 1)
        E(c) == [base |-> Idx(cx, lo, c), stride |-> stride, count |-> stored, val |-> bytes[c + 1]]
        l3 == Put(p.log, E(3))
        l2 == Put(l3, E(2))
        l1 == Put(l2, E(1))
        l0 == Put(l1, E(0))
    IN [pixels |-> [len |-> p.len, log |-> l0], ok |-> stored = count]

CEILING == <<32, 32, 32, 255>>

FLOOR == <<64, 64, 64, 255>>

----------------------------------------------------------------------------
(* Renderer::render, one column at a time *)

\* pos.0 as usize
ToUsize(p) == IF p < 0 THEN 0 ELSE p \div Scale

\* (2. * (x as f32 / 800.)) - 1.
XCam(cx) == 2 * RoundDiv(cx * Scale, WIDTH) - Scale

\* facing_dir.i + view_plane.i * xcam
RayOf(facing, plane, cx) ==
    <<facing[1] + FMul(plane[1], XCam(cx)), facing[2] + FMul(plane[2], XCam(cx))>>

\* whether that sum is -0.0: both terms must be -0.0
RayNeg0(facing, neg0, plane, cx) ==
    [i \in 1..2 |-> /\ facing[i] = 0 /\ neg0[i]
                    /\ FMul(plane[i], XCam(cx)) = 0
                    /\ (plane[i] < 0) # (XCam(cx) < 0)]

DeltaDist(r) == IF NearZero(r) THEN SENTINEL ELSE RecipAbs(r)

\* lines 64-75: the starting side distances
SideDist(r, p) ==
    IF NearZero(r) THEN Fix(p - ToUsize(p) * Scale) ELSE Fix(ToUsize(p) * Scale + Scale - p)

NoHit == [mat |-> 0, side |-> 0, point |-> <<Fix(0), Fix(0)>>]

ZeroU32 == U32Of(0)

\* lines 44-79: the column's ray and the DDA's starting values
ColumnBegin ==
    /\ pc = "column"
    /\ todo # <<>>
    /\ LET cx == Head(todo)
           r == RayOf(facing_dir, view_plane, cx)
           n0 == RayNeg0(facing_dir, facing_neg0, view_plane, cx)
       IN /\ x' = cx
          /\ ray' = r
          /\ ray_neg0' = <<n0[1], n0[2]>>
          /\ ipos' = <<ToUsize(player_pos[1]), ToUsize(player_pos[2])>>
          /\ delta_dist' = <<DeltaDist(r[1]), DeltaDist(r[2])>>
          /\ side_dist' = <<SideDist(r[1], player_pos[1]), SideDist(r[2], player_pos[2])>>
          /\ step' = <<Signum(r[1], n0[1]), Signum(r[2], n0[2])>>
    /\ hit' = NoHit
    /\ nsteps' = 0
    /\ color' = ZeroU32 /\ dperp' = Fix(0) /\ h' = ZeroU32 /\ y0' = ZeroU32 /\ y1' = ZeroU32
    /\ pc' = "dda"
    /\ UNCHANGED <<camVars, winVars, gfxVars, histVars, pixels, todo, panic>>

\* lines 81-93: one iteration of while hit.0 == 0
DDAStep ==
    /\ pc = "dda"
    /\ hit.mat = 0
    /\ nsteps < MaxSteps
    /\ LET axis == IF FLess(side_dist[1], side_dist[2]) THEN 1 ELSE 2
           ip == [ipos EXCEPT ![axis] = @ + step[axis]]
       IN \E cell \in {MapLookup(ip, checks) : checks \in BOOLEAN} :
           /\ side_dist' = [side_dist EXCEPT ![axis] = FAdd(@, delta_dist[axis])]
           /\ ipos' = ip
           /\ hit' = [hit EXCEPT !.side = axis - 1, !.mat = cell.mat]
           /\ pc' = IF ~cell.ok THEN "panicked" ELSE IF cell.mat # 0 THEN "shade" ELSE "dda"
           /\ panic' = IF ~cell.ok THEN "map index out of bounds" ELSE panic
    /\ nsteps' = nsteps + 1
    /\ UNCHANGED <<camVars, winVars, gfxVars, histVars, pixels, todo,
                   x, ray, ray_neg0, delta_dist, step, color, dperp, h, y0, y1>>

\* the match with the literals of its arms 1 and 3 exchanged
BaseColorAsStated(m) ==
    CASE m = 1 -> Hex(255, 255, 0, 0)
      [] m = 2 -> Hex(255, 0, 255, 0)
      [] m = 3 -> Hex(255, 0, 0, 255)
      [] OTHER -> Hex(255, 255, 0, 255)

\* lines 95-100: match hit.0 { 1 => 0xFF0000FF, 2 => 0xFF00FF00, 3 => 0xFFFF0000, _ => 0xFFFF00FF }
BaseColor(m) ==
    CASE m = 1 -> Hex(255, 0, 0, 255)
      [] m = 2 -> Hex(255, 0, 255, 0)
      [] m = 3 -> Hex(255, 255, 0, 0)
      [] OTHER -> Hex(255, 255, 0, 255)

\* the darkening with blue left out of the scaled mask
DarkenKeepsBlue(c) ==
    LET r == UMul(UAnd(c, Hex(0, 0, 0, 255)), 192)
        g == UMul(UAnd(c, Hex(0, 0, 255, 0)), 192)
    IN [val |-> UOr(UOr(UOr(Hex(255, 0, 0, 0), UAnd(c, Hex(0, 255, 0, 0))),
                        UAnd(UShr8(r.val), Hex(0, 0, 0, 255))),
                    UAnd(UShr8(g.val), Hex(0, 0, 255, 0))),
        overflow |-> r.overflow \/ g.overflow]

\* lines 102-104: [val, overflow]
Darken(c) ==
    LET br == UMul(UAnd(c, Hex(0, 255, 0, 255)), 192)
        g == UMul(UAnd(c, Hex(0, 0, 255, 0)), 192)
    IN [val |-> UOr(UOr(Hex(255, 0, 0, 0), UAnd(UShr8(br.val), Hex(0, 255, 0, 255))),
                    UAnd(UShr8(g.val), Hex(0, 0, 255, 0))),
        overflow |-> br.overflow \/ g.overflow]

\* lines 108-111
DPerp(sd, dd, side) == FSub(sd[side + 1], dd[side + 1])

\* (600. / dperp) as u32: the cast truncates and saturates, 600/0 is +inf
StripHeight(d) ==
    IF d.big # 0 THEN ZeroU32
    ELSE IF d.fix < 0 THEN ZeroU32
    ELSE IF d.fix = 0 THEN U32_MAX
    ELSE U32Of((HEIGHT * Scale) \div d.fix)

\* lines 95-115: the colour, the distance and the strip of the column
Shade ==
    /\ pc = "shade"
    /\ LET base == BaseColor(hit.mat)
           dark == Darken(base)
           col == IF hit.side = 1 THEN dark.val ELSE base
           d == DPerp(side_dist, delta_dist, hit.side)
           sh == StripHeight(d)
           top == USub(U32Of(HALF_HEIGHT), UHalf(sh))
           bot == UAdd(U32Of(HALF_HEIGHT), UHalf(sh))
           over == (hit.side = 1 /\ dark.overflow) \/ top.overflow \/ bot.overflow
       IN /\ color' = col
          /\ hit' = [hit EXCEPT !.point = <<FAdd(Fix(player_pos[1]), side_dist[1]),
                                            FAdd(Fix(player_pos[2]), side_dist[2])>>]
          /\ dperp' = d
          /\ h' = sh
          \* an overflow panics in a build with overflow checks and wraps in one without
          /\ \E checks \in {over, FALSE} :
                IF checks
                THEN /\ pc' = "panicked"
                     /\ panic' = "arithmetic overflow"
                     /\ UNCHANGED <<y0, y1>>
                ELSE /\ y0' = UMax(top.val, ZeroU32)
                     /\ y1' = UMin(bot.val, U32Of(HEIGHT - 1))
                     /\ pc' = "ceiling"
                     /\ UNCHANGED panic
    /\ UNCHANGED <<camVars, winVars, gfxVars, histVars, pixels, todo,
                   x, ray, ray_neg0, ipos, delta_dist, side_dist, step, nsteps>>

\* the end of a raster loop: on to `next`, or the panic of an out-of-range store
Stored(r, next) ==
    /\ pixels' = r.pixels
    /\ pc' = IF r.ok THEN next ELSE "panicked"
    /\ panic' = IF r.ok THEN panic ELSE "pixel index out of bounds"

\* lines 117-122: for y in 0..y0
Ceiling ==
    /\ pc = "ceiling"
    /\ Stored(Fill(pixels, x, 0, ToInt(y0), CEILING), "wall")
    /\ UNCHANGED <<camVars, winVars, gfxVars, histVars, colVars, todo>>

\* lines 123-128: for y in y0..=y1
WallRows(a, b) == [lo |-> ToInt(a), hi |-> ToInt(b) + 1]

Wall ==
    /\ pc = "wall"
    /\ Stored(Fill(pixels, x, WallRows(y0, y1).lo, WallRows(y0, y1).hi, Bytes(color)), "floor")
    /\ UNCHANGED <<camVars, winVars, gfxVars, histVars, colVars, todo>>

\* lines 129-134: for y in y1..600
FloorRowsBelowWall(b) == [lo |-> ToInt(b) + 1, hi |-> HEIGHT]

FloorRows(b) == [lo |-> ToInt(b), hi |-> HEIGHT]

\* ... and the end of the column: the next one, or render returns
Floor ==
    /\ pc = "floor"
    /\ Stored(Fill(pixels, x, FloorRows(y1).lo, FloorRows(y1).hi, FLOOR),
              IF Tail(todo) = <<>> THEN "queue" ELSE "column")
    /\ todo' = Tail(todo)
    /\ UNCHANGED <<camVars, winVars, gfxVars, histVars, colVars>>

RenderStep == ColumnBegin \/ DDAStep \/ Shade \/ Ceiling \/ Wall \/ Floor

----------------------------------------------------------------------------
(* Renderer::render on any camera inside the map *)

\* the screen texture State::new creates
SCREEN_WIDTH == 800

SCREEN_HEIGHT == 600

\* window.inner_size() when State::new or Graphics::new runs
InnerSizes == {<<SCREEN_WIDTH, SCREEN_HEIGHT>>, <<1024, 768>>}

\* where in its cell the camera stands: on the corner (integer coordinates),
\* on an edge, and inside
PosOffsets ==
    << <<0, 0>>, <<Scale \div 2, Scale \div 5>>, <<Scale \div 5, (7 * Scale) \div 10>>,
       <<0, Scale \div 2>>, <<(9 * Scale) \div 10, Scale \div 2>>, <<Scale \div 2, 0>> >>

InteriorPositions ==
    {<<c[1] * Scale + PosOffsets[k][1], c[2] * Scale + PosOffsets[k][2]>> :
        <<c, k>> \in {ck \in ((1..MAP_WIDTH - 2) \X (1..MAP_WIDTH - 2)) \X (1..Min(NumOffsets, Len(PosOffsets))) :
                          Interior(ck[1][1], ck[1][2])}}

\* facing directions: the program's initial one, the four axes, and none at all
Facings ==
    {<<-Scale, Scale \div 10>>, <<Scale, 0>>, <<-Scale, 0>>, <<0, Scale>>, <<0, -Scale>>, <<0, 0>>}

Planes == {<<0, (66 * Scale) \div 100>>}

\* for x in 0..800, at the columns the model renders
Column(i) == Min(((i - 1) * WIDTH) \div (NumColumns - 1), WIDTH - 1)

Columns == [i \in 1..NumColumns |-> Column(i)]

\* what queue.write_texture was last given: the data's length, the extent and the layout
NoUpload == [valid |-> FALSE, len |-> 0, width |-> 0, height |-> 0, bytes_per_row |-> 0, rows_per_image |-> 0]

\* the resize handler the last event ran, the size it was given, and whether it
\* called surface.configure
NoResize == [handler |-> "none", target |-> <<0, 0>>, configured |-> FALSE]

\* the length of the buffer Graphics' renderer owns: a pixel array sized to the
\* output dimensions it is constructed with, 4 bytes a pixel
GraphicsPixelsLen(sz) == sz[1] * sz[2] * 4

\* State::new and Graphics::new in a window of inner size sz
InitSurface(sz) ==
    /\ size = sz
    /\ config = sz
    /\ surface = sz
    /\ screen = <<SCREEN_WIDTH, SCREEN_HEIGHT>>
    /\ queued = NoUpload
    /\ last_resize = NoResize
    /\ g_config = sz
    /\ g_surface = sz
    /\ g_pixels_len = GraphicsPixelsLen(sz)
    /\ g_queued = NoUpload

InitLocals ==
    /\ x = 0 /\ ray = <<0, 0>> /\ ray_neg0 = <<FALSE, FALSE>> /\ ipos = <<0, 0>>
    /\ delta_dist = <<Fix(0), Fix(0)>> /\ side_dist = <<Fix(0), Fix(0)>> /\ step = <<0, 0>>
    /\ hit = NoHit /\ color = ZeroU32 /\ dperp = Fix(0) /\ h = ZeroU32
    /\ y0 = ZeroU32 /\ y1 = ZeroU32 /\ nsteps = 0
    /\ frames = 0 /\ facing_rots = 0 /\ plane_rots = 0 /\ renders = 0 /\ uploads = 0
    /\ panic = "none"

\* the buffer an earlier call of render left: column cx holds other bytes in
\* every row (here floor bytes above the middle and ceiling bytes below it)
EarlierFrame(cx) ==
    Fill(Fill(NewPixels(SCREEN_WIDTH, SCREEN_HEIGHT), cx, 0, HALF_HEIGHT, FLOOR).pixels,
         cx, HALF_HEIGHT, HEIGHT, CEILING).pixels

InitRender ==
    /\ InitSurface(<<SCREEN_WIDTH, SCREEN_HEIGHT>>)
    /\ InitLocals
    /\ player_pos \in InteriorPositions
    /\ facing_dir \in Facings
    /\ facing_neg0 \in {<<FALSE, FALSE>>, <<facing_dir[1] = 0, facing_dir[2] = 0>>}
    /\ view_plane \in Planes
    /\ \E i \in 1..NumColumns :
          /\ todo = <<Column(i)>>
          /\ pixels \in {NewPixels(SCREEN_WIDTH, SCREEN_HEIGHT), EarlierFrame(Column(i))}
    /\ pc = "column"

SpecRender == InitRender /\ [][RenderStep]_vars

----------------------------------------------------------------------------
(* State (main.rs): the window's events *)

\* angle.cos() and angle.sin() of angle = 0.007, in units of 1/Scale
COS_ANGLE == 10000

SIN_ANGLE == 70

\* x' = x cos - y sin, y' = x sin + y cos
Rotate(v) == <<FMul(v[1], COS_ANGLE) - FMul(v[2], SIN_ANGLE), FMul(v[1], SIN_ANGLE) + FMul(v[2], COS_ANGLE)>>

\* the sizes a Resized event brings
ResizeTargets == InnerSizes \cup {<<0, SCREEN_HEIGHT>>, <<SCREEN_WIDTH, 0>>}

SurfaceResults == {"Ok", "Lost", "Outdated", "OutOfMemory", "Timeout"}

\* State::resize
Resize(new_size) ==
    IF new_size[1] > 0 /\ new_size[2] > 0
    THEN /\ size' = new_size
         /\ config' = new_size
         /\ surface' = new_size
         /\ last_resize' = [handler |-> "State::resize", target |-> new_size, configured |-> TRUE]
    ELSE /\ UNCHANGED <<size, config, surface>>
         /\ last_resize' = [handler |-> "State::resize", target |-> new_size, configured |-> FALSE]

\* handle_event: WindowEvent::Resized(physical_size)
Resized(new_size) ==
    /\ pc = "idle"
    /\ Resize(new_size)
    /\ UNCHANGED <<camVars, gfxVars, colVars, histVars, screen, queued, pixels, pc, todo, panic>>

\* handle_event: WindowEvent::RedrawRequested, up to the call of update
RedrawRequested ==
    /\ pc = "idle"
    /\ frames < MaxFrames
    /\ frames' = frames + 1
    /\ last_resize' = NoResize
    /\ pc' = "update_facing"
    /\ UNCHANGED <<camVars, gfxVars, colVars, size, config, surface, screen, queued, pixels, todo, panic,
                   facing_rots, plane_rots, renders, uploads>>

\* update returning after its first assignment
ReturnAfterFacing == "render"

\* what follows the assignment of facing_dir: the assignment of view_plane
AfterFacing == "update_plane"

\* State::update, its first assignment
UpdateFacing ==
    /\ pc = "update_facing"
    /\ facing_dir' = Rotate(facing_dir)
    /\ facing_neg0' = <<facing_dir[1] = 0 /\ facing_neg0[1] /\ facing_dir[2] = 0 /\ ~facing_neg0[2],
                        facing_dir[1] = 0 /\ facing_neg0[1] /\ facing_dir[2] = 0 /\ facing_neg0[2]>>
    /\ facing_rots' = facing_rots + 1
    /\ pc' = AfterFacing
    /\ UNCHANGED <<player_pos, view_plane, winVars, gfxVars, colVars, pixels, todo, panic,
                   frames, plane_rots, renders, uploads>>

\* an update that also walks the camera along facing_dir
UpdatePlaneMovingPlayer ==
    /\ pc = "update_plane"
    /\ view_plane' = Rotate(view_plane)
    /\ player_pos' = <<player_pos[1] + FMul(facing_dir[1], SIN_ANGLE), player_pos[2] + FMul(facing_dir[2], SIN_ANGLE)>>
    /\ plane_rots' = plane_rots + 1
    /\ pc' = "render"
    /\ UNCHANGED <<facing_dir, facing_neg0, winVars, gfxVars, colVars, pixels, todo, panic,
                   frames, facing_rots, renders, uploads>>

\* State::update, its second assignment
UpdatePlane ==
    /\ pc = "update_plane"
    /\ view_plane' = Rotate(view_plane)
    /\ plane_rots' = plane_rots + 1
    /\ pc' = "render"
    /\ UNCHANGED <<player_pos, facing_dir, facing_neg0, winVars, gfxVars, colVars, pixels, todo, panic,
                   frames, facing_rots, renders, uploads>>

\* State::render calls Renderer::render
RenderBegin ==
    /\ pc = "render"
    /\ todo' = Columns
    /\ renders' = renders + 1
    /\ pc' = "column"
    /\ UNCHANGED <<camVars, winVars, gfxVars, colVars, pixels, panic,
                   frames, facing_rots, plane_rots, uploads>>

\* Renderer::queue
Queue ==
    /\ pc = "queue"
    /\ queued' = [valid |-> TRUE, len |-> pixels.len, width |-> screen[1], height |-> screen[2],
                  bytes_per_row |-> WIDTH * 4, rows_per_image |-> HEIGHT]
    /\ uploads' = uploads + 1
    /\ pc' = "acquire"
    /\ UNCHANGED <<camVars, gfxVars, colVars, size, config, surface, screen, last_resize, pixels, todo, panic,
                   frames, facing_rots, plane_rots, renders>>

\* the rest of State::render and handle_event's match on its result
Acquire ==
    /\ pc = "acquire"
    /\ \E result \in SurfaceResults :
        /\ IF result \in {"Lost", "Outdated"}
           THEN Resize(size)
           ELSE UNCHANGED <<size, config, surface, last_resize>>
        /\ pc' = IF result = "OutOfMemory" THEN "exited" ELSE "idle"
    /\ UNCHANGED <<camVars, gfxVars, colVars, histVars, screen, queued, pixels, todo, panic>>

\* handle_event: a close event
CloseRequested ==
    /\ pc = "idle"
    /\ pc' = "exited"
    /\ last_resize' = NoResize
    /\ UNCHANGED <<camVars, gfxVars, colVars, histVars, size, config, surface, screen, queued, pixels, todo, panic>>

\* handle_event: any other window event
OtherEvent ==
    /\ pc = "idle"
    /\ last_resize' = NoResize
    /\ UNCHANGED <<camVars, gfxVars, colVars, histVars, size, config, surface, screen, queued, pixels, pc, todo, panic>>

----------------------------------------------------------------------------
(* Graphics (graphics.rs) *)

\* Graphics::resize
GraphicsResize(new_size) ==
    /\ pc = "idle"
    /\ g_config' = new_size
    /\ g_surface' = new_size
    /\ last_resize' = [handler |-> "Graphics::resize", target |-> new_size, configured |-> TRUE]
    /\ UNCHANGED <<camVars, colVars, histVars, size, config, surface, screen, queued,
                   g_pixels_len, g_queued, pixels, pc, todo, panic>>

\* Graphics::render: the renderer redraws its buffer in place, Graphics::queue uploads it
GraphicsRender ==
    /\ pc = "idle"
    /\ g_queued' = [valid |-> TRUE, len |-> g_pixels_len, width |-> g_config[1], height |-> g_config[2],
                    bytes_per_row |-> g_config[1] * 4, rows_per_image |-> g_config[2]]
    /\ last_resize' = NoResize
    /\ UNCHANGED <<camVars, colVars, histVars, size, config, surface, screen, queued,
                   g_config, g_surface, g_pixels_len, pixels, pc, todo, panic>>

----------------------------------------------------------------------------
(* The program *)

\* State::new: player_pos (5., 5.), facing_dir (-1., 0.1), view_plane (0., 0.66)
INIT_POS == <<5 * Scale, 5 * Scale>>

INIT_FACING == <<-Scale, Scale \div 10>>

INIT_PLANE == <<0, (66 * Scale) \div 100>>

Init ==
    /\ \E sz \in InnerSizes : InitSurface(sz)
    /\ pixels = NewPixels(screen[1], screen[2])
    /\ InitLocals
    /\ player_pos = INIT_POS
    /\ facing_dir = INIT_FACING
    /\ facing_neg0 = <<FALSE, FALSE>>
    /\ view_plane = INIT_PLANE
    /\ todo = <<>>
    /\ pc = "idle"

Next ==
    \/ \E new_size \in ResizeTargets : Resized(new_size)
    \/ RedrawRequested
    \/ UpdateFacing
    \/ UpdatePlane
    \/ RenderBegin
    \/ RenderStep
    \/ Queue
    \/ Acquire
    \/ CloseRequested
    \/ OtherEvent
    \/ \E new_size \in ResizeTargets : GraphicsResize(new_size)
    \/ GraphicsRender

Spec == Init /\ [][Next]_vars

----------------------------------------------------------------------------
(* Properties of Renderer::render, checked under SpecRender *)

\* the column's ray has been cast
RayCast == pc # "column"

NonDegenerate == ~NearZero(ray[1]) /\ ~NearZero(ray[2])

\* the DDA loop has ended at a solid cell
LoopEnded == pc \in {"shade", "ceiling", "wall", "floor", "queue"} \/ (pc = "panicked" /\ panic # "map index out of bounds")

\* dperp, h, y0 and y1 have been computed
DistanceComputed == pc \in {"ceiling", "wall", "floor", "queue"} \/ (pc = "panicked" /\ panic # "map index out of bounds")

\* C1: from a camera strictly inside the map, a ray with both components
\* non-degenerate ends the DDA loop after at most map_width + map_height = 30
\* cell steps: the loop is never still running after its 30th step.
C1_TerminatesWithin30 ==
    (RayCast /\ NonDegenerate) =>
        /\ nsteps <= MAP_WIDTH + MAP_WIDTH
        /\ (pc = "dda" => nsteps < MAP_WIDTH + MAP_WIDTH)
        /\ panic # "map index out of bounds"

\* a non-degenerate ray that crossed most of the map before its hit
C1_Witness == LoopEnded /\ NonDegenerate /\ nsteps >= 12 /\ hit.mat # 0

BorderIsSolid ==
    \A cx \in 0..MAP_WIDTH - 1, cy \in 0..MAP_WIDTH - 1 :
        IsBorder(cx, cy) => MAP_DATA[cy * MAP_WIDTH + cx + 1] # 0

\* C2: every border cell of MAP_DATA is nonzero, and from any camera inside the
\* map, for any ray (zero components included), the cell index stays in
\* [0,15) x [0,15) at every step: the lookup is never out of range.
C2_CellIndexInRange ==
    /\ BorderIsSolid
    /\ RayCast => /\ ipos[1] \in 0..MAP_WIDTH - 1
                  /\ ipos[2] \in 0..MAP_WIDTH - 1
                  /\ panic # "map index out of bounds"

\* a ray with a zero component that walked to the border and stopped there
C2_Witness == LoopEnded /\ ~NonDegenerate /\ IsBorder(ipos[1], ipos[2]) /\ nsteps >= 5

\* C3: for any ray from a camera strictly inside the map (integer coordinates
\* and zero components included), the perpendicular distance computed after the
\* DDA loop is strictly greater than 0.
C3_DperpPositive == DistanceComputed => FPositive(dperp)

\* rows y0..=y1 of column x hold the bytes rgba: for each byte of the pixel the
\* buffer's log has the one run of stores that starts at row y0 and spans the
\* rows to y1 with that value, and the rows at its two ends read back as it
WallBytesAre(rgba) ==
    \A c \in 0..3 :
        /\ \E i \in 1..Len(pixels.log) :
              /\ pixels.log[i].base = (ToInt(y0) * WIDTH + x) * 4 + c
              /\ pixels.log[i].stride = WIDTH * 4
              /\ pixels.log[i].count = ToInt(y1) - ToInt(y0) + 1
              /\ pixels.log[i].val = rgba[c + 1]
        /\ ByteAt(pixels, (ToInt(y0) * WIDTH + x) * 4 + c) = rgba[c + 1]
        /\ ByteAt(pixels, (ToInt(y1) * WIDTH + x) * 4 + c) = rgba[c + 1]

\* the wall loop has stored its rows and the floor loop has not yet run
WallStored == pc = "floor" /\ hit.side = 0

\* C4: the wall pixels written for a hit with side == 0 hold, in byte order
\* R,G,B,A: red (255,0,0,255) for material 1, green (0,255,0,255) for material
\* 2, blue (0,0,255,255) for material 3, and the fallback arm of the match is
\* magenta (255,0,255,255).
C4_WallColors ==
    /\ Bytes(BaseColor(4)) = <<255, 0, 255, 255>>
    /\ WallStored =>
          /\ hit.mat = 1 => WallBytesAre(<<255, 0, 0, 255>>)
          /\ hit.mat = 2 => WallBytesAre(<<0, 255, 0, 255>>)
          /\ hit.mat = 3 => WallBytesAre(<<0, 0, 255, 255>>)
          /\ hit.mat \notin {1, 2, 3} => WallBytesAre(<<255, 0, 255, 255>>)

\* a wall of material 3 hit on its x side and rasterized
C4_Witness == WallStored /\ hit.mat = 3 /\ ToInt(y0) < ToInt(y1)

\* C4 as the specification states it: material 1 blue (0,0,255,255), material 2
\* green, material 3 red (255,0,0,255), any other magenta.
C4_AsStated ==
    WallStored =>
        /\ hit.mat = 1 => WallBytesAre(<<0, 0, 255, 255>>)
        /\ hit.mat = 2 => WallBytesAre(<<0, 255, 0, 255>>)
        /\ hit.mat = 3 => WallBytesAre(<<255, 0, 0, 255>>)
        /\ hit.mat \notin {1, 2, 3} => WallBytesAre(<<255, 0, 255, 255>>)

\* the indices a fill of the log stores to
FirstIndex(e) == e.base

LastIndex(e) == e.base + (e.count - 1) * e.stride

\* the column an index of the buffer belongs to
ColumnOf(idx) == (idx \div 4) % WIDTH

RowOf(idx) == (idx \div 4) \div WIDTH

\* C8: rendering column x writes only bytes at indices (y*800 + x)*4 + c with
\* y in [0,600) and c in [0,4): every store made while the column is rendered
\* lies in column x, one row apart from the next, inside the buffer.
C8_WritesOwnColumn ==
    RayCast => \A i \in 1..Len(pixels.log) :
        LET e == pixels.log[i]
        IN /\ e.stride = WIDTH * 4
           /\ ColumnOf(FirstIndex(e)) = x
           /\ FirstIndex(e) >= 0
           /\ LastIndex(e) < WIDTH * HEIGHT * 4
           /\ RowOf(FirstIndex(e)) \in 0..HEIGHT - 1
           /\ RowOf(LastIndex(e)) \in 0..HEIGHT - 1
           /\ FirstIndex(e) = (RowOf(FirstIndex(e)) * WIDTH + x) * 4 + (FirstIndex(e) % 4)

\* the last column of the screen fully rasterized: ceiling, wall and floor stored
C8_Witness == pc = "queue" /\ x = WIDTH - 1 /\ Len(pixels.log) >= 12

\* C10: a ray with ray.x == 0 cast from a camera strictly inside the map gets
\* delta_dist.x equal to the sentinel, ends its loop at a solid cell with an
\* in-range index, and its column is rasterized with no arithmetic overflow and
\* no out-of-range pixel write.
C10_DegenerateRayHandled ==
    (RayCast /\ NearZero(ray[1])) =>
        /\ delta_dist[1] = SENTINEL
        /\ panic = "none"

\* the runs of stores a rasterized column leaves in the log: for each byte c of
\* the pixel, rows [0, y0) with the ceiling's byte, rows [y0, y1) with the wall
\* colour's and rows [y1, HEIGHT) with the floor's
Run(lo, hi, c, val) == [base |-> (lo * WIDTH + x) * 4 + c, stride |-> WIDTH * 4, count |-> hi - lo, val |-> val]

PartitionRuns ==
    {Run(0, ToInt(y0), c, CEILING[c + 1]) : c \in {b \in 0..3 : ToInt(y0) > 0}}
        \cup {Run(ToInt(y0), ToInt(y1), c, Bytes(color)[c + 1]) : c \in {b \in 0..3 : ToInt(y1) > ToInt(y0)}}
        \cup {Run(ToInt(y1), HEIGHT, c, FLOOR[c + 1]) : c \in 0..3}

\* the pixel of column x at row y
Pixel(y) == [c \in 1..4 |-> ByteAt(pixels, (y * WIDTH + x) * 4 + c - 1)]

\* C9: once render has returned, whatever the buffer held before, every row of
\* the column holds a byte stored by this call: rows [0, y0) the ceiling colour
\* (0x20,0x20,0x20,0xFF), rows [y0, y1) the wall colour, rows [y1, height) the
\* floor colour (0x40,0x40,0x40,0xFF); row y1 ends as floor.
C9_ColumnPartition ==
    pc = "queue" =>
        /\ ToInt(y0) <= ToInt(y1) /\ ToInt(y1) < HEIGHT
        /\ {pixels.log[i] : i \in 1..Len(pixels.log)} = PartitionRuns
        /\ Len(pixels.log) = Cardinality(PartitionRuns)
        /\ Pixel(ToInt(y1)) = <<64, 64, 64, 255>>
        /\ Pixel(HEIGHT - 1) = <<64, 64, 64, 255>>
        /\ ToInt(y0) > 0 => Pixel(0) = <<32, 32, 32, 255>> /\ Pixel(ToInt(y0) - 1) = <<32, 32, 32, 255>>
        /\ ToInt(y1) > ToInt(y0) => Pixel(ToInt(y0)) = Bytes(color) /\ Pixel(ToInt(y1) - 1) = Bytes(color)

\* render has returned on a column with a ceiling, a wall and a floor
C9_Witness ==
    /\ pc = "queue"
    /\ 0 < ToInt(y0) /\ ToInt(y0) < ToInt(y1)
    /\ Len(pixels.log) = 12
    /\ nsteps >= 3

----------------------------------------------------------------------------
(* Properties of the event loop, checked under Spec *)

Area4(w, h_) == w * h_ * 4

\* C5: after any sequence of resize and render events the pixel buffer's length
\* is width x height x 4 for the width and height handed to the presentation
\* queue with it (the extent, and bytes_per_row = width x 4), and a resize to
\* (w, h) leaves a buffer of exactly w x h x 4 bytes.
C5_BufferMatchesSize ==
    /\ queued.valid => /\ queued.len = Area4(queued.width, queued.height)
                       /\ queued.bytes_per_row = queued.width * 4
    /\ g_queued.valid => /\ g_queued.len = Area4(g_queued.width, g_queued.height)
                         /\ g_queued.bytes_per_row = g_queued.width * 4
    /\ (last_resize.handler = "State::resize" /\ last_resize.configured) =>
          pixels.len = Area4(last_resize.target[1], last_resize.target[2])
    /\ (last_resize.handler = "Graphics::resize" /\ last_resize.target[1] > 0 /\ last_resize.target[2] > 0) =>
          g_pixels_len = Area4(last_resize.target[1], last_resize.target[2])

\* C6: a resize whose target has zero width or zero height is a no-op in both
\* handlers: the stored size, the surface configuration and the pixel buffer
\* are unchanged and surface.configure is not called.
C6_ZeroResizeIsNoOp ==
    [][(last_resize'.handler # "none" /\ (last_resize'.target[1] = 0 \/ last_resize'.target[2] = 0)) =>
          /\ UNCHANGED <<size, config, surface, pixels, g_config, g_surface, g_pixels_len>>
          /\ ~last_resize'.configured]_vars

RECURSIVE RotateN(_, _)
RotateN(v, n) == IF n = 0 THEN v ELSE RotateN(Rotate(v), n - 1)

\* render has been called for the frame and the buffer is not yet uploaded
InRender == pc \in {"column", "dda", "shade", "ceiling", "wall", "floor", "queue", "panicked"}

\* C7: each call of render is preceded, within the same RedrawRequested
\* handling, by exactly one completed update (facing_dir and view_plane both
\* rotated once more), render never runs between the two assignments nor
\* without an update, and the buffer is queued only after render has returned.
C7_UpdateBeforeRender ==
    /\ uploads <= renders /\ renders <= plane_rots /\ plane_rots <= facing_rots /\ facing_rots <= frames
    /\ pc = "update_plane" => renders = frames - 1 /\ plane_rots = frames - 1 /\ facing_rots = frames
    /\ pc = "render" => renders = frames - 1 /\ plane_rots = frames /\ facing_rots = frames
    /\ InRender => /\ renders = frames /\ plane_rots = frames /\ facing_rots = frames
                   /\ uploads = renders - 1
                   /\ facing_dir = RotateN(INIT_FACING, frames)
                   /\ view_plane = RotateN(INIT_PLANE, frames)
    /\ pc \in {"acquire", "idle", "exited"} => uploads = renders /\ renders = frames /\ plane_rots = frames

\* the second frame's render has returned and its buffer is about to be queued
C7_Witness == pc = "queue" /\ frames = 2 /\ uploads = 1 /\ view_plane # INIT_PLANE

----------------------------------------------------------------------------
(* The reference scene *)

\* render is called with the camera State::new constructs, on column 0 or 799
ReferenceColumn ==
    /\ RayCast
    /\ player_pos = INIT_POS /\ facing_dir = INIT_FACING /\ view_plane = INIT_PLANE
    /\ facing_neg0 = <<FALSE, FALSE>>
    /\ x \in {0, WIDTH - 1}

\* C11: with the reference map, camera (5.0, 5.0), facing (-1.0, 0.1), view
\* plane (0.0, 0.66) and an 800x600 buffer, the hits of column 0 and of column
\* 799 have a material in {1,2,3} and a perpendicular distance with
\* 0 < dperp < 20.
C11_ReferenceHits ==
    ReferenceColumn =>
        /\ LoopEnded => hit.mat \in {1, 2, 3}
        /\ DistanceComputed => FPositive(dperp) /\ FLess(dperp, Fix(20 * Scale))
        /\ pc # "panicked"

\* column 799 of the reference scene with its hit and distance computed
C11_Witness == ReferenceColumn /\ x = WIDTH - 1 /\ pc = "queue" /\ hit.mat \in {1, 2, 3}

----------------------------------------------------------------------------
(* The camera across events *)

\* C12: after any sequence of window events player_pos is still (5,5), and
\* facing_dir and view_plane are the initial ones rotated once for each update
\* that has assigned them: one rotation per RedrawRequested once its handling
\* is over, and no change by render, resize or any other handler.
C12_CameraOnlyRotates ==
    /\ player_pos = INIT_POS
    /\ facing_dir = RotateN(INIT_FACING, facing_rots)
    /\ view_plane = RotateN(INIT_PLANE, plane_rots)
    /\ facing_neg0 = <<FALSE, FALSE>>
    /\ pc \notin {"update_facing", "update_plane"} => facing_rots = frames /\ plane_rots = frames

\* two redraws, then a resize: the camera has been rotated twice and not moved
C12_Witness ==
    /\ pc = "idle" /\ frames = 2
    /\ last_resize.handler = "State::resize" /\ last_resize.configured
    /\ size # <<SCREEN_WIDTH, SCREEN_HEIGHT>>
    /\ facing_dir # INIT_FACING /\ view_plane # INIT_PLANE /\ facing_dir # Rotate(INIT_FACING)

----------------------------------------------------------------------------
(* The strip bounds *)

\* C13: for every hit at a positive distance, y0 = max(300 - h/2, 0) and
\* y1 = min(300 + h/2, 599) are computed without wrap-around or underflow, so
\* that 0 <= y0 <= y1 <= height - 1 and no store lies outside the buffer.
C13_StripBoundsClamped ==
    (DistanceComputed /\ FPositive(dperp)) =>
        /\ panic = "none"
        /\ ~USub(U32Of(HALF_HEIGHT), UHalf(h)).overflow
        /\ ToInt(y0) <= ToInt(y1)
        /\ ToInt(y1) <= HEIGHT - 1

----------------------------------------------------------------------------
(* The darkening of side 1 *)

\* v * 0xC0 >> 8
Scaled(v) == (v * 192) \div 256

\* the wall loop of a hit with side == 1 has stored its rows
DarkWallStored == pc = "floor" /\ hit.side = 1

\* the four arms of the match, darkened: no multiplication overflows and every
\* channel but alpha is scaled
DarkenOfBaseColors ==
    \A m \in 1..4 :
        LET b == Bytes(BaseColor(m))
        IN /\ ~Darken(BaseColor(m)).overflow
           /\ Bytes(Darken(BaseColor(m)).val) = <<Scaled(b[1]), Scaled(b[2]), Scaled(b[3]), 255>>

\* C14: for a hit with side == 1 the wall color is the base color with its
\* red, green and blue channels each scaled by v * 0xC0 >> 8 and alpha kept at
\* 0xFF; for side == 0 the base color is written unchanged; the 32-bit
\* multiplications overflow for none of the four base colors.
C14_DarkenScalesAllChannels ==
    /\ DarkenOfBaseColors
    /\ DarkWallStored =>
          LET b == Bytes(BaseColor(hit.mat))
          IN WallBytesAre(<<Scaled(b[1]), Scaled(b[2]), Scaled(b[3]), 255>>)
    /\ WallStored => WallBytesAre(Bytes(BaseColor(hit.mat)))

\* a wall of material 3 (blue) hit on its y side and rasterized
C14_Witness == DarkWallStored /\ hit.mat = 3 /\ ToInt(y0) < ToInt(y1) /\ Bytes(color) = <<0, 0, 191, 255>>

\* C14 as the specification states it: red and green scaled, blue unscaled
C14_AsStated ==
    DarkWallStored =>
        LET b == Bytes(BaseColor(hit.mat))
        IN WallBytesAre(<<Scaled(b[1]), Scaled(b[2]), b[3], 255>>)

----------------------------------------------------------------------------
(* The start of the traversal *)

\* the sign of a ray component: +1, -1, or 0 for a zero component
SignOf(r) == IF r > 0 THEN 1 ELSE IF r < 0 THEN -1 ELSE 0

\* the column's starting values have been computed and no step is taken yet
TraversalStarts == pc = "dda" /\ nsteps = 0

\* C15: the initial side_dist of each axis is chosen by the sign of the ray
\* component, position - floor(position) when it is negative and
\* floor(position) + 1 - position when it is positive, and the cell index of
\* an axis moves by the sign of its ray component: +1, -1, or 0.
C15_SideDistBySign ==
    TraversalStarts =>
        \A i \in 1..2 :
            /\ ray[i] < 0 => side_dist[i] = Fix(player_pos[i] - ToUsize(player_pos[i]) * Scale)
            /\ ray[i] > 0 => side_dist[i] = Fix(ToUsize(player_pos[i]) * Scale + Scale - player_pos[i])
            /\ step[i] = SignOf(ray[i])

====
